---- MODULE Spec2Model ----
(***************************************************************************)
(* SmallOrdSet: a set kept as a sorted, duplicate-free SmallVec            *)
(* (src/src/lib.rs), its map layer over KeyValuePair (src/src/map.rs) and  *)
(* the Entry view (src/src/entry.rs).                                      *)
(*                                                                         *)
(* Elements are KeyValuePair records; comparison looks at the key only     *)
(* (map.rs:95-113).  A plain set of integers is the case where the value   *)
(* carries no information.  Indices are 0-based as in the source, so the   *)
(* element at index idx is vec[idx + 1].                                   *)
(***************************************************************************)
EXTENDS Integers, Sequences, FiniteSets, TLC

\* Model bounds.
MaxKey == 3
MaxVal == 1
MaxLen == 3
MaxCount == 4
MaxExtend == 2
UsizeBits == 3

Keys == 1..MaxKey
Values == 0..MaxVal
USIZE_MAX == (2 ^ UsizeBits) - 1
Usize == 0..USIZE_MAX
Positions == 0..(MaxKey + 1)

VARIABLES vec, view, op, log, input, pos, other

vars == <<vec, view, op, log, input, pos, other>>

----------------------------------------------------------------------------
\* Values of the element type and of Option / Result.

KeyValuePair(k, v) == [key |-> k, value |-> v]

Elems == [key : Keys, value : Values]

None == <<>>

Some(x) == <<x>>

Ok(i) == [ok |-> TRUE, idx |-> i]

Err(i) == [ok |-> FALSE, idx |-> i]

\* Ord::cmp on keys; KeyValuePair delegates cmp and eq to the key.
cmp(a, b) == IF a < b THEN "Less" ELSE IF a > b THEN "Greater" ELSE "Equal"

eq(a, b) == a.key = b.key

\* All sequences over S of length at most n.
SeqsUpTo(S, n) == UNION {[1..m -> S] : m \in 0..n}

----------------------------------------------------------------------------
\* SmallVec operations the set calls.

\* Mutant of VecInsert: the element at idx is overwritten, not shifted.
VecInsertClobbers(s, idx, e) == SubSeq(s, 1, idx) \o <<e>> \o SubSeq(s, idx + 2, Len(s))

VecInsert(s, idx, e) == SubSeq(s, 1, idx) \o <<e>> \o SubSeq(s, idx + 1, Len(s))

VecRemove(s, idx) == SubSeq(s, 1, idx) \o SubSeq(s, idx + 2, Len(s))

VecReplace(s, idx, e) == [s EXCEPT ![idx + 1] = e]

\* slice::binary_search_by with the probe closure of find.
RECURSIVE binary_search_by(_, _, _, _)
binary_search_by(s, q, left, right) ==
    IF left >= right THEN Err(left)
    ELSE LET mid == left + ((right - left) \div 2)
             c == cmp(s[mid + 1].key, q)
         IN  IF c = "Less" THEN binary_search_by(s, q, mid + 1, right)
             ELSE IF c = "Greater" THEN binary_search_by(s, q, left, mid)
             ELSE Ok(mid)

\* Mutant of sort: not stable, an element goes before the earlier elements
\* equal to it.
RECURSIVE sort_equal_first(_)
sort_equal_first(s) ==
    IF s = <<>> THEN <<>>
    ELSE LET n == Len(s)
             t == sort_equal_first(SubSeq(s, 1, n - 1))
             p == Cardinality({i \in 1..Len(t) : cmp(t[i].key, s[n].key) = "Less"})
         IN  VecInsert(t, p, s[n])

\* slice::sort is stable: an element goes after every earlier element that
\* is less than or equal to it.
RECURSIVE sort(_)
sort(s) ==
    IF s = <<>> THEN <<>>
    ELSE LET n == Len(s)
             t == sort(SubSeq(s, 1, n - 1))
             p == Cardinality({i \in 1..Len(t) : cmp(t[i].key, s[n].key) # "Greater"})
         IN  VecInsert(t, p, s[n])

\* Vec::dedup keeps the first element of every run of equal elements.
RECURSIVE dedup(_)
dedup(s) ==
    IF Len(s) <= 1 THEN s
    ELSE LET n == Len(s)
             d == dedup(SubSeq(s, 1, n - 1))
         IN  IF eq(d[Len(d)], s[n]) THEN d ELSE Append(d, s[n])

----------------------------------------------------------------------------
\* The methods of SmallOrdSet as functions of the buffer: each returns the
\* buffer after the call and the value returned.

\* Mutant of find: a miss always reports the end of the buffer.
find_miss_at_end(s, q) ==
    LET r == binary_search_by(s, q, 0, Len(s))
    IN  IF r.ok THEN r ELSE Err(Len(s))

find(s, q) == binary_search_by(s, q, 0, Len(s))

\* Mutant of sort_and_dedup: the dedup pass is missing.
sort_without_dedup(s) == sort(s)

sort_and_dedup(s) == dedup(sort(s))

from_vec(s) == sort_and_dedup(s)

\* Mutant of insert: an equal stored element is overwritten.
insert_overwrites(s, element) ==
    LET r == find(s, element.key)
    IN  IF r.ok THEN [vec |-> VecReplace(s, r.idx, element), ret |-> FALSE]
        ELSE [vec |-> VecInsert(s, r.idx, element), ret |-> TRUE]

insert(s, element) ==
    LET r == find(s, element.key)
    IN  IF r.ok THEN [vec |-> s, ret |-> FALSE]
        ELSE [vec |-> VecInsert(s, r.idx, element), ret |-> TRUE]

\* Mutant of replace: the stored element is returned but left in place.
replace_keeps_old(s, element) ==
    LET r == find(s, element.key)
    IN  IF r.ok THEN [vec |-> s, ret |-> Some(s[r.idx + 1])]
        ELSE [vec |-> VecInsert(s, r.idx, element), ret |-> None]

replace(s, element) ==
    LET r == find(s, element.key)
    IN  IF r.ok THEN [vec |-> VecReplace(s, r.idx, element), ret |-> Some(s[r.idx + 1])]
        ELSE [vec |-> VecInsert(s, r.idx, element), ret |-> None]

\* Mutant of remove: the element after the match is the one taken out.
remove_next(s, q) ==
    LET r == find(s, q)
    IN  IF r.ok THEN [vec |-> VecRemove(s, IF r.idx + 1 < Len(s) THEN r.idx + 1 ELSE r.idx),
                      ret |-> Some(s[r.idx + 1])]
        ELSE [vec |-> s, ret |-> None]

remove(s, q) ==
    LET r == find(s, q)
    IN  IF r.ok THEN [vec |-> VecRemove(s, r.idx), ret |-> Some(s[r.idx + 1])]
        ELSE [vec |-> s, ret |-> None]

contains(s, q) == find(s, q).ok

get(s, q) ==
    LET r == find(s, q)
    IN  IF r.ok THEN Some(s[r.idx + 1]) ELSE None

\* Extend::extend: the elements of iter are pushed behind the buffer, then
\* the whole buffer is sorted and deduplicated.
extend(s, iter) == sort_and_dedup(s \o iter)

\* Mutant of append: the elements of other are copied, not drained.
append_copies(s, o) == [vec |-> extend(s, o), other |-> o]

\* append(other) = self.extend(other.drain(..)): the Drain over the full
\* range cuts other to length 0, hands every element to extend and on its
\* drop puts back the (empty) tail.
append(s, o) ==
    LET start == 0
        end == Len(o)
        range == SubSeq(o, start + 1, end)
        tail == SubSeq(o, end + 1, Len(o))
    IN  [vec |-> extend(s, range), other |-> SubSeq(o, 1, start) \o tail]

\* Option::map on the value of a pair.
MapValue(o) == IF o = None THEN None ELSE Some(o[1].value)

\* The map layer: wrappers that build or match a KeyValuePair.
insert_value(s, key, value) == insert(s, KeyValuePair(key, value))

replace_value(s, key, value) ==
    LET r == replace(s, KeyValuePair(key, value))
    IN  [vec |-> r.vec, ret |-> MapValue(r.ret)]

\* Mutant of remove_value: the value is returned but the pair stays.
remove_value_peeks(s, key) == [vec |-> s, ret |-> MapValue(get(s, key))]

remove_value(s, key) ==
    LET r == remove(s, key)
    IN  [vec |-> r.vec, ret |-> MapValue(r.ret)]

get_value(s, key) == MapValue(get(s, key))

\* Mutant of entry: the search result is ignored and the entry is vacant.
entry_always_vacant(s, key) ==
    LET r == find(s, key)
    IN  [kind |-> "vacant", idx |-> r.idx, key |-> key]

\* entry(key): one search; Occupied holds the index of the stored element,
\* Vacant the insertion index and the key.
entry(s, key) ==
    LET r == find(s, key)
    IN  IF r.ok THEN [kind |-> "occupied", idx |-> r.idx]
        ELSE [kind |-> "vacant", idx |-> r.idx, key |-> key]

\* Entry::key.
EntryKey(s, e) == IF e.kind = "occupied" THEN s[e.idx + 1].key ELSE e.key

\* VacantEntry::insert_with: the element goes in at the index of the entry.
insert_with(s, e, element) == [vec |-> VecInsert(s, e.idx, element), ret |-> e.idx]

\* Mutant of or_insert: an occupied entry is reset to the default.
or_insert_resets(s, e, default) ==
    IF e.kind = "occupied"
    THEN [vec |-> VecReplace(s, e.idx, KeyValuePair(s[e.idx + 1].key, default)), ret |-> e.idx]
    ELSE insert_with(s, e, KeyValuePair(e.key, default))

\* Entry::or_insert: Occupied gives the reference to the stored value
\* (into_mut), Vacant inserts the pair of the key and the default.  ret is
\* the index the returned reference points at.
or_insert(s, e, default) ==
    IF e.kind = "occupied" THEN [vec |-> s, ret |-> e.idx]
    ELSE insert_with(s, e, KeyValuePair(e.key, default))

----------------------------------------------------------------------------
\* State.  vec is the buffer of the set; view is the borrow currently held
\* on it (an Entry, the reference or_insert returned, or a Drain); op is the
\* last call with its argument, result and the buffer before it.  other is
\* the buffer of a second set, the argument of append.

NoView == [kind |-> "none"]

Init ==
    /\ vec = <<>>
    /\ view = NoView
    /\ op = [name |-> "new", arg |-> <<>>, ret |-> <<>>, panic |-> FALSE, pre |-> <<>>]
    /\ log = <<>>
    /\ input = <<>>
    /\ pos = 0
    /\ other = <<>>

\* A call can start: the program has not panicked and no Entry or Drain
\* holds the exclusive borrow (a value reference ends at its last use).
Free == ~op.panic /\ view.kind \in {"none", "ref"}

Returns(name, arg, r) ==
    /\ Free
    /\ vec' = r.vec
    /\ view' = NoView
    /\ op' = [name |-> name, arg |-> arg, ret |-> r.ret, panic |-> FALSE, pre |-> vec]

Panics(name, arg) ==
    /\ Free
    /\ vec' = vec
    /\ view' = NoView
    /\ op' = [name |-> name, arg |-> arg, ret |-> <<>>, panic |-> TRUE, pre |-> vec]

Insert(element) == Returns("insert", element, insert(vec, element))

Replace(element) == Returns("replace", element, replace(vec, element))

Remove(q) == Returns("remove", q, remove(vec, q))

Contains(q) == Returns("contains", q, [vec |-> vec, ret |-> contains(vec, q)])

Get(q) == Returns("get", q, [vec |-> vec, ret |-> get(vec, q)])

Clear == Returns("clear", <<>>, [vec |-> <<>>, ret |-> <<>>])

\* retain(f): f is any predicate on elements; keep is the set of keys whose
\* element it accepts.
Retain(keep) ==
    Returns("retain", keep,
            [vec |-> SelectSeq(vec, LAMBDA e : e.key \in keep), ret |-> <<>>])

\* The capacity calls change no element.  SmallVec::grow asserts
\* new_cap >= len; reserve and reserve_exact fail when len + additional
\* does not fit in usize.
grow_panics(len, new_cap) == new_cap < len

reserve_panics(len, additional) == len + additional > USIZE_MAX

Grow(new_cap) ==
    IF grow_panics(Len(vec), new_cap) THEN Panics("grow", new_cap)
    ELSE Returns("grow", new_cap, [vec |-> vec, ret |-> <<>>])

Reserve(additional) ==
    IF reserve_panics(Len(vec), additional) THEN Panics("reserve", additional)
    ELSE Returns("reserve", additional, [vec |-> vec, ret |-> <<>>])

ReserveExact(additional) ==
    IF reserve_panics(Len(vec), additional) THEN Panics("reserve_exact", additional)
    ELSE Returns("reserve_exact", additional, [vec |-> vec, ret |-> <<>>])

\* Index::index hands a position or a range a..b to the slice index, which
\* panics out of bounds.
index_panics(len, index) == index >= len

range_panics(len, start, end) == start > end \/ end > len

Index(index) ==
    IF index_panics(Len(vec), index) THEN Panics("index", index)
    ELSE Returns("index", index, [vec |-> vec, ret |-> vec[index + 1]])

IndexRange(start, end) ==
    IF range_panics(Len(vec), start, end) THEN Panics("index_range", <<start, end>>)
    ELSE Returns("index_range", <<start, end>>,
                 [vec |-> vec, ret |-> SubSeq(vec, start + 1, end)])

\* Mutant of drain_panics: an empty range is refused.
drain_panics_on_empty(len, start, end) == start >= end \/ end > len

\* drain(start..end): SmallVec::drain asserts start <= end and end <= len,
\* cuts the buffer to start and hands the range and the tail to the Drain.
drain_panics(len, start, end) == start > end \/ end > len

Drain(start, end) ==
    IF drain_panics(Len(vec), start, end) THEN Panics("drain", <<start, end>>)
    ELSE /\ Free
         /\ vec' = SubSeq(vec, 1, start)
         /\ view' = [kind |-> "drain",
                     iter |-> SubSeq(vec, start + 1, end),
                     tail |-> SubSeq(vec, end + 1, Len(vec))]
         /\ op' = [name |-> "drain", arg |-> <<start, end>>, ret |-> <<>>,
                   panic |-> FALSE, pre |-> vec]

\* Drain::next yields the next element of the range; op.ret collects what
\* the iterator has yielded.
DrainNext ==
    /\ view.kind = "drain"
    /\ view.iter # <<>>
    /\ view' = [view EXCEPT !.iter = Tail(@)]
    /\ op' = [op EXCEPT !.ret = Append(@, Head(view.iter))]
    /\ vec' = vec

\* Mutant of DrainDrop: the elements not yet yielded stay in the set.
DrainDropKeepsUnyielded ==
    /\ view.kind = "drain"
    /\ vec' = vec \o view.iter \o view.tail
    /\ view' = NoView
    /\ op' = [op EXCEPT !.name = "drain_drop"]

\* Dropping the Drain drops what is left of the range and moves the tail
\* back behind the kept prefix.
DrainDrop ==
    /\ view.kind = "drain"
    /\ vec' = vec \o view.tail
    /\ view' = NoView
    /\ op' = [op EXCEPT !.name = "drain_drop"]

\* The constructors build the set from the collection held in input; they
\* are the first call of a program that has no set yet.
Constructs(name) ==
    /\ op.name = "start"
    /\ vec' = from_vec(input)
    /\ view' = NoView
    /\ op' = [name |-> name, arg |-> input, ret |-> <<>>, panic |-> FALSE, pre |-> <<>>]
    /\ UNCHANGED <<log, input, pos, other>>

FromVec == Constructs("from_vec")

FromBuf == Constructs("from_buf")

FromIter == Constructs("from_iter")

InsertValue(key, value) ==
    Returns("insert_value", [key |-> key, value |-> value], insert_value(vec, key, value))

ReplaceValue(key, value) ==
    Returns("replace_value", [key |-> key, value |-> value], replace_value(vec, key, value))

RemoveValue(key) == Returns("remove_value", [key |-> key], remove_value(vec, key))

GetValue(key) == Returns("get_value", [key |-> key], [vec |-> vec, ret |-> get_value(vec, key)])

\* entry(key) borrows the set for the Entry it returns.
Entry(key) ==
    /\ Free
    /\ vec' = vec
    /\ view' = entry(vec, key)
    /\ op' = [name |-> "entry", arg |-> [key |-> key], ret |-> <<>>,
              panic |-> FALSE, pre |-> vec]

\* or_insert(default) consumes the Entry and leaves a mutable reference to
\* the value; op.ret is the value read through it.
OrInsert(default) ==
    /\ view.kind \in {"occupied", "vacant"}
    /\ LET r == or_insert(vec, view, default)
       IN  /\ vec' = r.vec
           /\ view' = [kind |-> "ref", idx |-> r.ret]
           /\ op' = [name |-> "or_insert",
                     arg |-> [key |-> EntryKey(vec, view), value |-> default],
                     ret |-> r.vec[r.ret + 1].value, panic |-> FALSE, pre |-> vec]

\* *counter += 1 through the reference or_insert returned.
WriteRef ==
    /\ view.kind = "ref"
    /\ vec[view.idx + 1].value < MaxCount
    /\ vec' = [vec EXCEPT ![view.idx + 1].value = @ + 1]
    /\ view' = view
    /\ op' = [name |-> "write", arg |-> [key |-> vec[view.idx + 1].key],
              ret |-> vec[view.idx + 1].value + 1, panic |-> FALSE, pre |-> vec]

\* The calls leave the scenario variables alone.
Alone == UNCHANGED <<log, input, pos, other>>

Next ==
    \/ \E e \in Elems : Insert(e) /\ Alone
    \/ \E e \in Elems : Replace(e) /\ Alone
    \/ \E q \in Keys : Remove(q) /\ Alone
    \/ \E q \in Keys : Contains(q) /\ Alone
    \/ \E q \in Keys : Get(q) /\ Alone
    \/ Clear /\ Alone
    \/ \E keep \in SUBSET Keys : Retain(keep) /\ Alone
    \/ \E new_cap \in Usize : Grow(new_cap) /\ Alone
    \/ \E additional \in Usize : Reserve(additional) /\ Alone
    \/ \E additional \in Usize : ReserveExact(additional) /\ Alone
    \/ \E index \in Positions : Index(index) /\ Alone
    \/ \E start, end \in Positions : IndexRange(start, end) /\ Alone
    \/ \E start, end \in Positions : Drain(start, end) /\ Alone
    \/ DrainNext /\ Alone
    \/ DrainDrop /\ Alone

Spec == Init /\ [][Next]_vars

\* Construction from an arbitrary collection: any order, any duplicates.
InitFrom ==
    /\ vec = <<>>
    /\ view = NoView
    /\ op = [name |-> "start", arg |-> <<>>, ret |-> <<>>, panic |-> FALSE, pre |-> <<>>]
    /\ log = <<>>
    /\ input \in SeqsUpTo(Elems, MaxLen)
    /\ pos = 0
    /\ other = <<>>

NextFrom == FromVec \/ FromBuf \/ FromIter

SpecFrom == InitFrom /\ [][NextFrom]_vars

\* log is the run of the latest calls that follows a sequence of call names
\* on one key: a call that continues the sequence is appended, any other
\* call starts the run again.
Follow(names) ==
    LET n == Len(log)
    IN  log' = IF /\ n < Len(names)
                  /\ op'.name = names[n + 1]
                  /\ n > 0 => op'.arg.key = log[1].arg.key
               THEN Append(log, op')
               ELSE IF op'.name = names[1] THEN <<op'>> ELSE <<>>

\* Map calls, with the run insert_value, get_value, remove_value, get_value
\* on one key recorded.
RoundTrip == <<"insert_value", "get_value", "remove_value", "get_value">>

NextMap ==
    \/ \E k \in Keys, v \in Values :
            InsertValue(k, v) /\ Follow(RoundTrip) /\ UNCHANGED <<input, pos, other>>
    \/ \E k \in Keys, v \in Values :
            ReplaceValue(k, v) /\ Follow(RoundTrip) /\ UNCHANGED <<input, pos, other>>
    \/ \E k \in Keys : RemoveValue(k) /\ Follow(RoundTrip) /\ UNCHANGED <<input, pos, other>>
    \/ \E k \in Keys : GetValue(k) /\ Follow(RoundTrip) /\ UNCHANGED <<input, pos, other>>

SpecMap == Init /\ [][NextMap]_vars

\* Entry calls, with the run entry, or_insert, entry, or_insert on one key
\* recorded.
Twice == <<"entry", "or_insert", "entry", "or_insert">>

NextEntry ==
    \/ \E k \in Keys : Entry(k) /\ Follow(Twice) /\ UNCHANGED <<input, pos, other>>
    \/ \E d \in Values : OrInsert(d) /\ Follow(Twice) /\ UNCHANGED <<input, pos, other>>
    \/ WriteRef /\ Follow(Twice) /\ UNCHANGED <<input, pos, other>>
    \/ \E k \in Keys : RemoveValue(k) /\ Follow(Twice) /\ UNCHANGED <<input, pos, other>>

SpecEntry == Init /\ [][NextEntry]_vars

\* The counting loop of the entry example:
\*     for ch in input { let counter = letters.entry(ch).or_insert(0);
\*                       *counter += 1; }
\* on an empty map; pos is the number of characters counted.  Treatise is
\* "a short treatise on fungi" in character codes.
Treatise ==
    <<97, 32, 115, 104, 111, 114, 116, 32, 116, 114, 101, 97, 116, 105, 115,
      101, 32, 111, 110, 32, 102, 117, 110, 103, 105>>

InitLetters ==
    /\ vec = <<>>
    /\ view = NoView
    /\ op = [name |-> "new", arg |-> <<>>, ret |-> <<>>, panic |-> FALSE, pre |-> <<>>]
    /\ log = <<>>
    /\ input \in SeqsUpTo(Keys, MaxLen) \cup {Treatise}
    /\ pos = 0
    /\ other = <<>>

LoopEntry ==
    /\ op.name \in {"new", "write"}
    /\ pos < Len(input)
    /\ Entry(input[pos + 1])
    /\ UNCHANGED <<log, input, pos, other>>

LoopOrInsert ==
    /\ op.name = "entry"
    /\ OrInsert(0)
    /\ UNCHANGED <<log, input, pos, other>>

LoopIncrement ==
    /\ op.name = "or_insert"
    /\ WriteRef
    /\ pos' = pos + 1
    /\ UNCHANGED <<log, input, other>>

NextLetters == LoopEntry \/ LoopOrInsert \/ LoopIncrement

SpecLetters == InitLetters /\ [][NextLetters]_vars

\* Two sets and a.append(&mut b).  Sets are the buffers from_vec builds
\* from the collections of at most MaxLen elements.
Sets == {from_vec(s) : s \in SeqsUpTo(Elems, MaxLen)}

InitAppend ==
    /\ vec \in Sets
    /\ view = NoView
    /\ op = [name |-> "new", arg |-> <<>>, ret |-> <<>>, panic |-> FALSE, pre |-> <<>>]
    /\ log = <<>>
    /\ input = <<>>
    /\ pos = 0
    /\ other \in Sets

AppendOther ==
    /\ Free
    /\ LET r == append(vec, other)
       IN  /\ vec' = r.vec
           /\ other' = r.other
    /\ view' = NoView
    /\ op' = [name |-> "append", arg |-> other, ret |-> <<>>, panic |-> FALSE, pre |-> vec]
    /\ UNCHANGED <<log, input, pos>>

NextAppend == AppendOther

SpecAppend == InitAppend /\ [][NextAppend]_vars

\* A set and extend(iter), iter yielding the elements of input in order.
\* SmallSets are the buffers from_vec builds from the collections of at most
\* MaxExtend elements.
SmallSets == {from_vec(s) : s \in SeqsUpTo(Elems, MaxExtend)}

InitExtend ==
    /\ vec \in SmallSets
    /\ view = NoView
    /\ op = [name |-> "new", arg |-> <<>>, ret |-> <<>>, panic |-> FALSE, pre |-> <<>>]
    /\ log = <<>>
    /\ input \in SeqsUpTo(Elems, MaxExtend)
    /\ pos = 0
    /\ other = <<>>

Extend ==
    /\ Returns("extend", input, [vec |-> extend(vec, input), ret |-> <<>>])
    /\ UNCHANGED <<log, input, pos, other>>

NextExtend == Extend

SpecExtend == InitExtend /\ [][NextExtend]_vars

----------------------------------------------------------------------------
\* Properties.

Sorted(s) == \A i \in 1..(Len(s) - 1) : cmp(s[i].key, s[i + 1].key) = "Less"

NoDuplicates(s) == \A i, j \in 1..Len(s) : i # j => ~eq(s[i], s[j])

Stored(s, k) == \E i \in 1..Len(s) : s[i].key = k

ElemOf(s, k) == s[CHOOSE i \in 1..Len(s) : s[i].key = k]

Range(s) == {s[i] : i \in 1..Len(s)}

\* C1: after any sequence of calls from the empty set the contents in
\* iteration order are strictly increasing (I1) and hold no two equal
\* elements (I2).
C1_SortedNoDuplicates == Sorted(vec) /\ NoDuplicates(vec)

C1_Witness ==
    /\ op.name \in {"insert", "replace"}
    /\ Len(op.pre) = 2
    /\ Len(vec) = 3
    /\ op.arg.key = 2

\* C2: insert(x) returns true exactly when no element equal to x was stored
\* before the call; then the length grows by one; otherwise the length is
\* unchanged and the stored equal element is kept as it was (its value is
\* not overwritten by the value of x).
C2_InsertContract ==
    op.name = "insert" =>
        LET x == op.arg
            present == Stored(op.pre, x.key)
        IN  /\ op.ret = ~present
            /\ op.ret => Len(vec) = Len(op.pre) + 1
            /\ ~op.ret => /\ Len(vec) = Len(op.pre)
                          /\ ElemOf(vec, x.key) = ElemOf(op.pre, x.key)

C2_Witness ==
    /\ op.name = "insert"
    /\ op.ret = FALSE
    /\ ElemOf(op.pre, op.arg.key).value # op.arg.value
    /\ Len(vec) = 2

\* C3: replace(x) returns Some(old), the previously stored equal element,
\* exactly when one was stored, and None otherwise; afterwards the element
\* stored for x is x itself; the length is unchanged in the Some case and
\* grows by one in the None case.
C3_ReplaceContract ==
    op.name = "replace" =>
        LET x == op.arg
            present == Stored(op.pre, x.key)
        IN  /\ present => /\ op.ret = Some(ElemOf(op.pre, x.key))
                          /\ Len(vec) = Len(op.pre)
            /\ ~present => /\ op.ret = None
                           /\ Len(vec) = Len(op.pre) + 1
            /\ Stored(vec, x.key)
            /\ ElemOf(vec, x.key) = x

C3_Witness ==
    /\ op.name = "replace"
    /\ op.ret # None
    /\ op.ret[1].value # op.arg.value
    /\ Len(vec) = 3

\* C4: remove(k) returns Some(e) exactly when a stored element e compares
\* equal to k; then the length drops by one and contains(k) is false
\* afterwards; otherwise it returns None and the length is unchanged.
C4_RemoveContract ==
    op.name = "remove" =>
        LET k == op.arg
            present == Stored(op.pre, k)
        IN  /\ present => /\ op.ret = Some(ElemOf(op.pre, k))
                          /\ Len(vec) = Len(op.pre) - 1
                          /\ ~contains(vec, k)
                          /\ ~Stored(vec, k)
            /\ ~present => /\ op.ret = None
                           /\ Len(vec) = Len(op.pre)

C4_Witness ==
    /\ op.name = "remove"
    /\ op.ret # None
    /\ Len(op.pre) = 3
    /\ op.arg = 2

\* C5: a set built by from_vec, from_buf or from_iter from any collection
\* reads back strictly increasing and duplicate-free; every element of the
\* collection has an equal element in the set and every element of the set
\* occurs in the collection.
C5_ConstructedIsTheSetOfInputs ==
    op.name \in {"from_vec", "from_buf", "from_iter"} =>
        /\ Sorted(vec)
        /\ NoDuplicates(vec)
        /\ \A e \in Range(input) : Stored(vec, e.key)
        /\ \A e \in Range(vec) : e \in Range(input)

C5_Witness ==
    /\ op.name = "from_vec"
    /\ Len(input) = 3
    /\ Len(vec) = 2
    /\ input[1].key > input[2].key
    /\ input[1].key = input[3].key

\* C9 as stated: a call ends in a panic only if it is grow with
\* new_cap < len(), reserve or reserve_exact overflowing usize, or drain
\* with start > end or end > len().
C9_PanicsOnlyInCapacityAndDrain ==
    op.panic =>
        \/ op.name = "grow" /\ op.arg < Len(op.pre)
        \/ op.name \in {"reserve", "reserve_exact"} /\ Len(op.pre) + op.arg > USIZE_MAX
        \/ op.name = "drain" /\ (op.arg[1] > op.arg[2] \/ op.arg[2] > Len(op.pre))

\* C9 amended: a call ends in a panic only in those cases or when it is an
\* index out of bounds: a position >= len(), or a range with start > end or
\* end > len().
C9_PanicsOnlyInCapacityDrainAndIndex ==
    op.panic =>
        \/ op.name = "grow" /\ op.arg < Len(op.pre)
        \/ op.name \in {"reserve", "reserve_exact"} /\ Len(op.pre) + op.arg > USIZE_MAX
        \/ op.name = "drain" /\ (op.arg[1] > op.arg[2] \/ op.arg[2] > Len(op.pre))
        \/ op.name = "index" /\ op.arg >= Len(op.pre)
        \/ op.name = "index_range" /\ (op.arg[1] > op.arg[2] \/ op.arg[2] > Len(op.pre))

C9_Witness ==
    /\ op.panic
    /\ op.name = "drain"
    /\ Len(op.pre) = 2
    /\ op.arg = <<1, 3>>

\* C10: drain(start..end) with start <= end <= len() yields exactly the
\* elements at positions start..end in ascending order, and once the Drain
\* is dropped the set holds the elements before start followed by those
\* from end on, sorted, however many elements were consumed before.
C10_DrainRemovesTheWholeRange ==
    op.name \in {"drain", "drain_drop"} /\ ~op.panic =>
        LET start == op.arg[1]
            end == op.arg[2]
            range == SubSeq(op.pre, start + 1, end)
        IN  /\ op.name = "drain" => op.ret \o view.iter = range
            /\ op.name = "drain_drop" =>
                    /\ op.ret = SubSeq(range, 1, Len(op.ret))
                    /\ vec = SubSeq(op.pre, 1, start) \o SubSeq(op.pre, end + 1, Len(op.pre))
                    /\ Len(vec) = Len(op.pre) - (end - start)
                    /\ Sorted(vec)

C10_Witness ==
    /\ op.name = "drain_drop"
    /\ op.arg = <<0, 2>>
    /\ Len(op.pre) = 3
    /\ Len(op.ret) = 1
    /\ Len(vec) = 1

KeysOf(s) == [i \in 1..Len(s) |-> s[i].key]

Occurrences(s, k) == Cardinality({i \in 1..Len(s) : s[i] = k})

\* C6 as stated: insert_value(k, v) immediately followed by get_value(&k)
\* returns Some(&v), a following remove_value(&k) returns Some(v), and a
\* get_value(&k) after that returns None.
C6_RoundTripReturnsTheInsertedValue ==
    LET v == log[1].arg.value
    IN  /\ Len(log) >= 2 => log[2].ret = Some(v)
        /\ Len(log) >= 3 => log[3].ret = Some(v)
        /\ Len(log) >= 4 => log[4].ret = None

\* C6 amended: when insert_value(k, v) returns true the calls that follow
\* return Some(&v), Some(v) and None; when it returns false because k is
\* already stored with a value w, they return Some(&w), Some(w) and None.
C6_RoundTripReturnsTheStoredValue ==
    LET k == log[1].arg.key
        stored == IF log[1].ret THEN log[1].arg.value
                  ELSE ElemOf(log[1].pre, k).value
    IN  /\ Len(log) >= 1 => log[1].ret = ~Stored(log[1].pre, k)
        /\ Len(log) >= 2 => log[2].ret = Some(stored)
        /\ Len(log) >= 3 => log[3].ret = Some(stored)
        /\ Len(log) >= 4 => log[4].ret = None

C6_Witness ==
    /\ Len(log) = 4
    /\ log[1].ret = TRUE
    /\ log[1].arg = [key |-> 2, value |-> 1]
    /\ Len(log[1].pre) = 2
    /\ log[4].name = "get_value"

\* C7: entry(k).or_insert(d) twice in a row, with no write through the
\* returned reference in between: the value stored for k after the second
\* call is the one stored after the first, and the second call changes
\* neither len() nor the sequence of keys.
C7_OrInsertTwice ==
    Len(log) = 4 /\ log[4].arg.value = log[2].arg.value =>
        LET k == log[1].arg.key
            first == log[3].pre
        IN  /\ log[2].arg.key = k /\ log[3].arg.key = k /\ log[4].arg.key = k
            /\ get_value(first, k) # None
            /\ get_value(vec, k) = get_value(first, k)
            /\ log[4].ret = log[2].ret
            /\ Len(vec) = Len(first)
            /\ KeysOf(vec) = KeysOf(first)

C7_Witness ==
    /\ Len(log) = 4
    /\ log[4].arg.value = log[2].arg.value
    /\ log[4].name = "or_insert"
    /\ ~Stored(log[1].pre, log[1].arg.key)
    /\ Len(vec) = 3

\* C8: from an empty map, after *entry(k).or_insert(0) += 1 for each of the
\* first pos keys of the sequence, get_value(k) is Some(n) with n the number
\* of occurrences of k among them for every key that occurs, and None for
\* every key that does not; in particular at the end of the sequence.
C8_CountsOccurrences ==
    op.name \in {"new", "write"} =>
        \A k \in Keys \cup Range(Treatise) \cup {121} :
            LET n == Occurrences(SubSeq(input, 1, pos), k)
            IN  get_value(vec, k) = IF n = 0 THEN None ELSE Some(n)

C8_Witness ==
    /\ input = Treatise
    /\ pos = Len(input)
    /\ op.name = "write"
    /\ get_value(vec, 115) = Some(2)
    /\ get_value(vec, 116) = Some(3)
    /\ get_value(vec, 117) = Some(1)
    /\ get_value(vec, 121) = None

\* C11: after a.append(&mut b) on two sorted, duplicate-free sets, b is
\* empty, a is sorted and duplicate-free, and a holds an element equal to x
\* exactly when a or b held one before the call.
C11_AppendIsTheUnion ==
    op.name = "append" =>
        /\ other = <<>>
        /\ Sorted(vec)
        /\ NoDuplicates(vec)
        /\ \A x \in Keys : Stored(vec, x) <=> (Stored(op.pre, x) \/ Stored(op.arg, x))
        /\ \A x \in Keys : contains(vec, x) <=> (contains(op.pre, x) \/ contains(op.arg, x))

C11_Witness ==
    /\ op.name = "append"
    /\ Len(op.pre) = 2
    /\ Len(op.arg) = 2
    /\ Len(vec) = 3
    /\ op.arg[1].key < op.pre[1].key

\* The first element of s with key k.
FirstOf(s, k) == s[CHOOSE i \in 1..Len(s) : s[i].key = k /\ \A j \in 1..(i - 1) : s[j].key # k]

\* C12: extend(iter) resolves equal elements as first-encountered after a
\* stable sort: for a key already in self that also arrives in iter the
\* pair kept is the one of self; for a key absent from self that arrives
\* several times the pair kept is the first one in iteration order.
C12_ExtendKeepsTheFirst ==
    op.name = "extend" =>
        \A k \in Keys :
            /\ Stored(op.pre, k) => ElemOf(vec, k) = ElemOf(op.pre, k)
            /\ ~Stored(op.pre, k) /\ Stored(op.arg, k) => ElemOf(vec, k) = FirstOf(op.arg, k)
            /\ Stored(vec, k) <=> (Stored(op.pre, k) \/ Stored(op.arg, k))

C12_Witness ==
    /\ op.name = "extend"
    /\ Len(op.arg) = 2
    /\ op.arg[1].key = 2
    /\ op.arg[2].key = 2
    /\ op.arg[1].value # op.arg[2].value
    /\ ~Stored(op.pre, 2)
    /\ Len(op.pre) = 2
    /\ ElemOf(vec, 2) = op.arg[1]

\* The elements of s that do not compare equal to key k, in order.
Others(s, k) == SelectSeq(s, LAMBDA e : e.key # k)

\* C13: insert(x), replace(x) and remove(k) leave every stored element that
\* does not compare equal to the argument present, unmodified and in the
\* same relative order; insert(x) with an equal element present and
\* remove(k) with no match leave the whole buffer as it was.
C13_Frame ==
    op.name \in {"insert", "replace", "remove"} =>
        LET k == IF op.name = "remove" THEN op.arg ELSE op.arg.key
        IN  /\ Others(vec, k) = Others(op.pre, k)
            /\ op.name = "insert" /\ Stored(op.pre, k) => vec = op.pre
            /\ op.name = "remove" /\ ~Stored(op.pre, k) => vec = op.pre

C13_Witness ==
    /\ op.name = "insert"
    /\ op.ret = TRUE
    /\ op.arg.key = 2
    /\ Len(op.pre) = 2
    /\ Others(vec, 2) = op.pre

====
